---- MODULE Spec2Model ----
(***************************************************************************)
(* The ownership handler of the analytics indexer                          *)
(* (crates/sui-analytics-indexer/src/handlers/ownership_handler.rs):       *)
(* process_checkpoint appends ownership entries for the SUI coins of each  *)
(* transaction to a buffer guarded by one mutex, read() drains the buffer. *)
(*                                                                         *)
(* Option<T> is a sequence of length at most one: None is <<>>, Some(x) is *)
(* <<x>>.                                                                  *)
(***************************************************************************)
EXTENDS Integers, Sequences, FiniteSets, TLC

VARIABLES
    objects,        \* State.objects: the buffered entries
    packageCache,   \* State.package_store: package addresses with cached metadata
    package_filter, \* OwnershipHandler.package_filter: the configured filter, if any
    lock,           \* owner of OwnershipHandler.state (the mutex), or Free
    waiters,        \* tasks suspended in state.lock().await, in arrival order
    pc,             \* position of every task
    cp,             \* the checkpoint each worker is processing
    returned,       \* the value the latest read() of each reader returned
    calls,          \* history: number of process_checkpoint calls so far
    reads,          \* history: number of read() calls so far
    appended,       \* history: every entry ever pushed, with its checkpoint and transaction
    readLog,        \* history: every completed read()
    completed,      \* history: the calls of process_checkpoint that returned Ok(())
    contended,      \* history: whether a checkpoint was pending or in progress when
                    \* the task made its latest call
    last            \* history: the latest process_transaction call

vars == <<objects, packageCache, package_filter, lock, waiters, pc, cp, returned, calls, reads,
          appended, readLog, completed, contended, last>>

(***************************************************************************)
(* Bounds of the model.                                                    *)
(***************************************************************************)
MaxTransactions == 2
MaxCheckpoints == 2
MaxReads == 2

None == <<>>
Some(x) == <<x>>

Free == "free"
Workers == {"w1", "w2"}
Readers == {"r1"}
Tasks == Workers \cup Readers

(***************************************************************************)
(* Objects of the ledger.                                                  *)
(***************************************************************************)
SUI == "0x2::sui::SUI"
USDC == "0xa::usdc::USDC"

ObjectIDs == {1, 2, 3}
ObjectIdHex == <<"0x01", "0x02", "0x03">>
\* the Move type of each object: objects 1 and 2 are Coin<SUI>, object 3 is Coin<USDC>
TypeOf == <<"0x2::coin::Coin<0x2::sui::SUI>", "0x2::coin::Coin<0x2::sui::SUI>",
            "0x2::coin::Coin<0xa::usdc::USDC>">>
\* the version at which an object is first seen as an input
StartVersion == <<3, 5, 4>>

AddressA == [kind |-> "AddressOwner", address |-> "0xA"]
AddressB == [kind |-> "AddressOwner", address |-> "0xB"]
Shared == [kind |-> "Shared", address |-> "-"]
Owners == {AddressA, AddressB, Shared}
CoinValues == {50, 100}

\* transaction digests: the digest of transaction i of call k is <<k, i>>
GenesisDigest == <<0, 0>>
Digest(call, index) == <<call, index>>

\* ObjectID's Display
to_string(id) == ObjectIdHex[id]

\* Object::coin_type_maybe, as a string: the T of Coin<T>, None for any other type
coin_type_maybe(object) ==
    CASE object.type = "0x2::coin::Coin<0x2::sui::SUI>" -> Some(SUI)
      [] object.type = "0x2::coin::Coin<0xa::usdc::USDC>" -> Some(USDC)
      [] OTHER -> None

\* Object::get_coin_value_unsafe
get_coin_value_unsafe(object) == object.balance

\* handlers::get_owner_address: the address of an address- or object-owned object
get_owner_address(object) ==
    IF object.owner.kind \in {"AddressOwner", "ObjectOwner"}
    THEN Some(object.owner.address)
    ELSE None

\* handlers::get_owner_type
get_owner_type(object) == object.owner.kind

\* TransactionDigest::base58_encode
base58_encode(digest) == <<"base58", digest>>

(***************************************************************************)
(* The Status Classifier (handlers::ObjectStatusTracker): a lookup of the  *)
(* object id in the effect sets.                                           *)
(***************************************************************************)
ObjectStatusTracker(effects) ==
    [created |-> {r[1] : r \in effects.created},
     mutated |-> {r[1] : r \in effects.mutated},
     unwrapped |-> {r[1] : r \in effects.unwrapped},
     deleted |-> {effects.deleted[i][1] : i \in DOMAIN effects.deleted}]

get_object_status(tracker, object_id) ==
    CASE object_id \in tracker.created -> Some("Created")
      [] object_id \in tracker.mutated -> Some("Mutated")
      [] object_id \in tracker.unwrapped -> Some("Unwrapped")
      [] object_id \in tracker.deleted -> Some("Deleted")
      [] OTHER -> None

\* TransactionEffects::all_removed_objects: the deleted-object references
all_removed_objects(effects) == effects.deleted

(***************************************************************************)
(* process_transaction.                                                    *)
(***************************************************************************)
\* mutant: the before-snapshot is stamped with the checkpoint before this one
old_entry_of_earlier_checkpoint(object, checkpoint, epoch, timestamp_ms) ==
    [object_id |-> to_string(object.id),
     version |-> object.version,
     checkpoint |-> checkpoint - 1,
     epoch |-> epoch,
     timestamp_ms |-> timestamp_ms,
     owner_type |-> Some(get_owner_type(object)),
     owner_address |-> get_owner_address(object),
     object_status |-> "Transfer Out",
     previous_transaction |-> base58_encode(object.previous_transaction),
     coin_type |-> Some(IF coin_type_maybe(object) # None
                        THEN coin_type_maybe(object)[1] ELSE "None"),
     coin_balance |-> IF coin_type_maybe(object) # None
                      THEN get_coin_value_unsafe(object) ELSE 0,
     previous_owner |-> None,
     previous_version |-> None,
     previous_checkpoint |-> None,
     previous_coin_type |-> None,
     previous_type |-> None]

\* the before-snapshot of one tracked input object (the loop body of lines 58-86)
old_entry_of(object, checkpoint, epoch, timestamp_ms) ==
    [object_id |-> to_string(object.id),
     version |-> object.version,
     checkpoint |-> checkpoint,
     epoch |-> epoch,
     timestamp_ms |-> timestamp_ms,
     owner_type |-> Some(get_owner_type(object)),
     owner_address |-> get_owner_address(object),
     object_status |-> "Transfer Out",
     previous_transaction |-> base58_encode(object.previous_transaction),
     coin_type |-> Some(IF coin_type_maybe(object) # None
                        THEN coin_type_maybe(object)[1] ELSE "None"),
     coin_balance |-> IF coin_type_maybe(object) # None
                      THEN get_coin_value_unsafe(object) ELSE 0,
     previous_owner |-> None,
     previous_version |-> None,
     previous_checkpoint |-> None,
     previous_coin_type |-> None,
     previous_type |-> None]

\* mutant: every input object gets a before-snapshot, whatever its type
old_ownership_entries_of_any_type(input_objects, checkpoint, epoch, timestamp_ms) ==
    [i \in 1..Len(input_objects) |->
        <<input_objects[i].id, old_entry_of(input_objects[i], checkpoint, epoch, timestamp_ms)>>]

\* old_ownership_entries: (id, before-snapshot) of the input objects that are SUI coins
old_ownership_entries(input_objects, checkpoint, epoch, timestamp_ms) ==
    LET tracked == SelectSeq(input_objects, LAMBDA o : coin_type_maybe(o) = Some(SUI))
    IN  [i \in 1..Len(tracked) |->
            <<tracked[i].id, old_entry_of(tracked[i], checkpoint, epoch, timestamp_ms)>>]

\* old_ownership_entries.iter().find(|(id, _)| id == &object_id): the index of the
\* first pair with this id, 0 when there is none
find(old_entries, object_id) ==
    LET hits == {i \in DOMAIN old_entries : old_entries[i][1] = object_id}
    IN  IF hits = {} THEN 0 ELSE CHOOSE i \in hits : \A j \in hits : i <= j

\* mutant: the Transfer Out entry carries the current balance, like the other entries
transfer_out_entry_keeps_balance(object, old_entry, checkpoint, epoch, timestamp_ms) ==
    [object_id |-> to_string(object.id),
     version |-> object.version,
     checkpoint |-> checkpoint,
     epoch |-> epoch,
     timestamp_ms |-> timestamp_ms,
     owner_type |-> Some(get_owner_type(object)),
     owner_address |-> old_entry.owner_address,
     object_status |-> "Transfer Out",
     previous_transaction |-> base58_encode(object.previous_transaction),
     coin_type |-> coin_type_maybe(object),
     coin_balance |-> get_coin_value_unsafe(object),
     previous_owner |-> old_entry.owner_address,
     previous_version |-> Some(old_entry.version),
     previous_checkpoint |-> Some(old_entry.checkpoint),
     previous_coin_type |-> old_entry.coin_type,
     previous_type |-> old_entry.owner_type]

transfer_out_entry(object, old_entry, checkpoint, epoch, timestamp_ms) ==
    [object_id |-> to_string(object.id),
     version |-> object.version,
     checkpoint |-> checkpoint,
     epoch |-> epoch,
     timestamp_ms |-> timestamp_ms,
     owner_type |-> Some(get_owner_type(object)),
     owner_address |-> old_entry.owner_address,
     object_status |-> "Transfer Out",
     previous_transaction |-> base58_encode(object.previous_transaction),
     coin_type |-> coin_type_maybe(object),
     coin_balance |-> 0,
     previous_owner |-> old_entry.owner_address,
     previous_version |-> Some(old_entry.version),
     previous_checkpoint |-> Some(old_entry.checkpoint),
     previous_coin_type |-> old_entry.coin_type,
     previous_type |-> old_entry.owner_type]

\* mutant: the Transfer In entry drops the before-snapshot, like the entry of a mutation
transfer_in_entry_no_previous(object, old_entry, checkpoint, epoch, timestamp_ms) ==
    [object_id |-> to_string(object.id),
     version |-> object.version,
     checkpoint |-> checkpoint,
     epoch |-> epoch,
     timestamp_ms |-> timestamp_ms,
     owner_type |-> Some(get_owner_type(object)),
     owner_address |-> get_owner_address(object),
     object_status |-> "Transfer In",
     previous_transaction |-> base58_encode(object.previous_transaction),
     coin_type |-> coin_type_maybe(object),
     coin_balance |-> IF coin_type_maybe(object) # None
                      THEN get_coin_value_unsafe(object) ELSE 0,
     previous_owner |-> None,
     previous_version |-> None,
     previous_checkpoint |-> None,
     previous_coin_type |-> None,
     previous_type |-> None]

\* mutant: the Transfer In entry is stamped with the version of the before-snapshot
transfer_in_entry_old_version(object, old_entry, checkpoint, epoch, timestamp_ms) ==
    [object_id |-> to_string(object.id),
     version |-> old_entry.version,
     checkpoint |-> checkpoint,
     epoch |-> epoch,
     timestamp_ms |-> timestamp_ms,
     owner_type |-> Some(get_owner_type(object)),
     owner_address |-> get_owner_address(object),
     object_status |-> "Transfer In",
     previous_transaction |-> base58_encode(object.previous_transaction),
     coin_type |-> coin_type_maybe(object),
     coin_balance |-> IF coin_type_maybe(object) # None
                      THEN get_coin_value_unsafe(object) ELSE 0,
     previous_owner |-> old_entry.owner_address,
     previous_version |-> Some(old_entry.version),
     previous_checkpoint |-> Some(old_entry.checkpoint),
     previous_coin_type |-> old_entry.coin_type,
     previous_type |-> old_entry.owner_type]

transfer_in_entry(object, old_entry, checkpoint, epoch, timestamp_ms) ==
    [object_id |-> to_string(object.id),
     version |-> object.version,
     checkpoint |-> checkpoint,
     epoch |-> epoch,
     timestamp_ms |-> timestamp_ms,
     owner_type |-> Some(get_owner_type(object)),
     owner_address |-> get_owner_address(object),
     object_status |-> "Transfer In",
     previous_transaction |-> base58_encode(object.previous_transaction),
     coin_type |-> coin_type_maybe(object),
     coin_balance |-> IF coin_type_maybe(object) # None
                      THEN get_coin_value_unsafe(object) ELSE 0,
     previous_owner |-> old_entry.owner_address,
     previous_version |-> Some(old_entry.version),
     previous_checkpoint |-> Some(old_entry.checkpoint),
     previous_coin_type |-> old_entry.coin_type,
     previous_type |-> old_entry.owner_type]

\* mutant: an owner change pushes the entry of the new owner only
transfer_entries_in_only(object, old_entry, checkpoint, epoch, timestamp_ms) ==
    << transfer_in_entry(object, old_entry, checkpoint, epoch, timestamp_ms) >>

\* the entries pushed for an output object whose owner address changed (lines 96-140)
transfer_entries(object, old_entry, checkpoint, epoch, timestamp_ms) ==
    << transfer_out_entry(object, old_entry, checkpoint, epoch, timestamp_ms),
       transfer_in_entry(object, old_entry, checkpoint, epoch, timestamp_ms) >>

\* mutant: the entry of an unchanged owner carries the owner forward as previous owner
mutated_entry_with_previous(object, status, checkpoint, epoch, timestamp_ms) ==
    [object_id |-> to_string(object.id),
     version |-> object.version,
     checkpoint |-> checkpoint,
     epoch |-> epoch,
     timestamp_ms |-> timestamp_ms,
     owner_type |-> Some(get_owner_type(object)),
     owner_address |-> get_owner_address(object),
     object_status |-> status,
     previous_transaction |-> base58_encode(object.previous_transaction),
     coin_type |-> coin_type_maybe(object),
     coin_balance |-> IF coin_type_maybe(object) # None
                      THEN get_coin_value_unsafe(object) ELSE 0,
     previous_owner |-> get_owner_address(object),
     previous_version |-> None,
     previous_checkpoint |-> Some(checkpoint),
     previous_coin_type |-> coin_type_maybe(object),
     previous_type |-> Some(get_owner_type(object))]

\* the entry of an output object whose owner address did not change (lines 146-170);
\* status is the unwrapped verdict of the Status Classifier
mutated_entry(object, status, checkpoint, epoch, timestamp_ms) ==
    [object_id |-> to_string(object.id),
     version |-> object.version,
     checkpoint |-> checkpoint,
     epoch |-> epoch,
     timestamp_ms |-> timestamp_ms,
     owner_type |-> Some(get_owner_type(object)),
     owner_address |-> get_owner_address(object),
     object_status |-> status,
     previous_transaction |-> base58_encode(object.previous_transaction),
     coin_type |-> coin_type_maybe(object),
     coin_balance |-> IF coin_type_maybe(object) # None
                      THEN get_coin_value_unsafe(object) ELSE 0,
     previous_owner |-> None,
     previous_version |-> None,
     previous_checkpoint |-> None,
     previous_coin_type |-> None,
     previous_type |-> None]

\* the entry of an output object that has no before-snapshot (lines 178-202)
created_entry(object, status, checkpoint, epoch, timestamp_ms) ==
    [object_id |-> to_string(object.id),
     version |-> object.version,
     checkpoint |-> checkpoint,
     epoch |-> epoch,
     timestamp_ms |-> timestamp_ms,
     owner_type |-> Some(get_owner_type(object)),
     owner_address |-> get_owner_address(object),
     object_status |-> status,
     previous_transaction |-> base58_encode(object.previous_transaction),
     coin_type |-> coin_type_maybe(object),
     coin_balance |-> IF coin_type_maybe(object) # None
                      THEN get_coin_value_unsafe(object) ELSE 0,
     previous_owner |-> None,
     previous_version |-> None,
     previous_checkpoint |-> None,
     previous_coin_type |-> None,
     previous_type |-> None]

\* mutant: the Deleted entry is stamped with the version of the before-snapshot
deleted_entry_snapshot_version(object_ref, old_entry, digest, checkpoint, epoch, timestamp_ms) ==
    [object_id |-> to_string(object_ref[1]),
     version |-> old_entry.version,
     checkpoint |-> checkpoint,
     epoch |-> epoch,
     timestamp_ms |-> timestamp_ms,
     owner_type |-> old_entry.owner_type,
     owner_address |-> old_entry.owner_address,
     object_status |-> "DELETED",
     previous_transaction |-> base58_encode(digest),
     coin_type |-> old_entry.coin_type,
     coin_balance |-> 0,
     previous_owner |-> None,
     previous_version |-> None,
     previous_checkpoint |-> None,
     previous_coin_type |-> None,
     previous_type |-> None]

\* the entry of a removed object that has a before-snapshot (lines 212-229);
\* object_ref is (id, version), digest the digest of the transaction itself
deleted_entry(object_ref, old_entry, digest, checkpoint, epoch, timestamp_ms) ==
    [object_id |-> to_string(object_ref[1]),
     version |-> object_ref[2],
     checkpoint |-> checkpoint,
     epoch |-> epoch,
     timestamp_ms |-> timestamp_ms,
     owner_type |-> old_entry.owner_type,
     owner_address |-> old_entry.owner_address,
     object_status |-> "DELETED",
     previous_transaction |-> base58_encode(digest),
     coin_type |-> old_entry.coin_type,
     coin_balance |-> 0,
     previous_owner |-> None,
     previous_version |-> None,
     previous_checkpoint |-> None,
     previous_coin_type |-> None,
     previous_type |-> None]

\* mutant: a status the classifier does not find defaults to "Unknown"
output_entries_defaulting(object, old_entries, effects, checkpoint, epoch, timestamp_ms) ==
    IF coin_type_maybe(object) # Some(SUI)
    THEN [pushed |-> <<>>, panic |-> FALSE]
    ELSE
    LET i == find(old_entries, object.id)
        found == get_object_status(ObjectStatusTracker(effects), object.id)
        status == IF found = None THEN "Unknown" ELSE found[1]
    IN  IF i # 0
        THEN IF old_entries[i][2].owner_address # get_owner_address(object)
             THEN [pushed |-> transfer_entries(object, old_entries[i][2],
                                               checkpoint, epoch, timestamp_ms),
                   panic |-> FALSE]
             ELSE [pushed |-> << mutated_entry(object, status,
                                               checkpoint, epoch, timestamp_ms) >>,
                   panic |-> FALSE]
        ELSE [pushed |-> << created_entry(object, status,
                                          checkpoint, epoch, timestamp_ms) >>,
              panic |-> FALSE]

\* the body of the loop over output_objects (lines 90-205) for one object: the
\* entries it pushes, and whether .expect("Object must be in output objects") panics
output_entries(object, old_entries, effects, checkpoint, epoch, timestamp_ms) ==
    IF coin_type_maybe(object) # Some(SUI)
    THEN [pushed |-> <<>>, panic |-> FALSE]
    ELSE
    LET i == find(old_entries, object.id)
        status == get_object_status(ObjectStatusTracker(effects), object.id)
    IN  IF i # 0
        THEN IF old_entries[i][2].owner_address # get_owner_address(object)
             THEN [pushed |-> transfer_entries(object, old_entries[i][2],
                                               checkpoint, epoch, timestamp_ms),
                   panic |-> FALSE]
             ELSE IF status = None
                  THEN [pushed |-> <<>>, panic |-> TRUE]
                  ELSE [pushed |-> << mutated_entry(object, status[1],
                                                    checkpoint, epoch, timestamp_ms) >>,
                        panic |-> FALSE]
        ELSE IF status = None
             THEN [pushed |-> <<>>, panic |-> TRUE]
             ELSE [pushed |-> << created_entry(object, status[1],
                                               checkpoint, epoch, timestamp_ms) >>,
                   panic |-> FALSE]

\* the loop over output_objects from object i on: acc is what was pushed so far
RECURSIVE output_loop(_, _, _, _, _, _, _, _)
output_loop(output_objects, i, old_entries, effects, checkpoint, epoch, timestamp_ms, acc) ==
    IF i > Len(output_objects)
    THEN [pushed |-> acc, panic |-> FALSE]
    ELSE LET r == output_entries(output_objects[i], old_entries, effects,
                                 checkpoint, epoch, timestamp_ms)
         IN  IF r.panic
             THEN [pushed |-> acc, panic |-> TRUE]
             ELSE output_loop(output_objects, i + 1, old_entries, effects,
                              checkpoint, epoch, timestamp_ms, acc \o r.pushed)

\* the loop over effects.all_removed_objects() (lines 208-232)
RECURSIVE removed_loop(_, _, _, _, _, _, _)
removed_loop(removed, i, old_entries, digest, checkpoint, epoch, timestamp_ms) ==
    IF i > Len(removed)
    THEN <<>>
    ELSE LET k == find(old_entries, removed[i][1])
             rest == removed_loop(removed, i + 1, old_entries, digest,
                                  checkpoint, epoch, timestamp_ms)
         IN  IF k # 0
             THEN << deleted_entry(removed[i], old_entries[k][2], digest,
                                   checkpoint, epoch, timestamp_ms) >> \o rest
             ELSE rest

\* mutant: the loop over the removed objects runs before the loop over the outputs
process_transaction_removed_first(epoch, checkpoint, timestamp_ms, checkpoint_transaction, effects) ==
    LET old_entries == old_ownership_entries(checkpoint_transaction.input_objects,
                                             checkpoint, epoch, timestamp_ms)
        out == output_loop(checkpoint_transaction.output_objects, 1, old_entries,
                           effects, checkpoint, epoch, timestamp_ms, <<>>)
        removed == removed_loop(all_removed_objects(effects), 1, old_entries,
                                checkpoint_transaction.digest,
                                checkpoint, epoch, timestamp_ms)
    IN  [pushed |-> removed \o out.pushed, ok |-> ~out.panic]

\* process_transaction: the entries it pushes to state.objects, in order, and
\* whether it returns Ok(()) (ok) or panics after pushing them
process_transaction(epoch, checkpoint, timestamp_ms, checkpoint_transaction, effects) ==
    LET old_entries == old_ownership_entries(checkpoint_transaction.input_objects,
                                             checkpoint, epoch, timestamp_ms)
        out == output_loop(checkpoint_transaction.output_objects, 1, old_entries,
                           effects, checkpoint, epoch, timestamp_ms, <<>>)
    IN  IF out.panic
        THEN [pushed |-> out.pushed, ok |-> FALSE]
        ELSE [pushed |-> out.pushed \o
                         removed_loop(all_removed_objects(effects), 1, old_entries,
                                      checkpoint_transaction.digest,
                                      checkpoint, epoch, timestamp_ms),
              ok |-> TRUE]

(***************************************************************************)
(* Checkpoint data (§6 of the design: summary, and transactions with their *)
(* input objects, output objects and effects).  A transaction is built     *)
(* from a plan per touched object; view is what the checkpoint's earlier   *)
(* transactions left: the live objects they wrote and the ids they removed.*)
(* Ledger rules kept: an object id has one type, output versions are the   *)
(* transaction's Lamport version (above every input version), a created or *)
(* unwrapped object is no input, a removed object is not touched again and *)
(* only an address-owned object changes owner or was wrapped.  A plan with listed = FALSE *)
(* leaves its output object out of the effects (the contract violation of  *)
(* §4.1).                                                                  *)
(***************************************************************************)
EmptyView == [live |-> {}, gone |-> {}]
EmptyEffects == [created |-> {}, mutated |-> {}, unwrapped |-> {}, deleted |-> <<>>]

HasInput(kind) == kind \in {"mutate", "transfer", "delete"}
HasOutput(kind) == kind \in {"create", "unwrap", "mutate", "transfer"}

LiveOf(view, id) == {o \in view.live : o.id = id}

OtherAddress(owner) == IF owner = AddressA THEN AddressB ELSE AddressA

\* the plans a transaction may follow for object id
PlansFor(view, id, kinds, owners, values, listed) ==
    IF id \in view.gone THEN {}
    ELSE LET known == LiveOf(view, id) # {}
         IN  {p \in [id : {id}, kind : kinds, owner : owners, balance : values,
                     listed : listed] :
                /\ known => HasInput(p.kind) /\ \E o \in LiveOf(view, id) : p.owner = o.owner
                /\ p.kind \in {"transfer", "unwrap"} => p.owner.kind = "AddressOwner"
                /\ p.kind = "delete" => \A v \in values : p.balance <= v
                /\ ~p.listed => p.kind \in {"create", "mutate"}}

\* the object a plan reads: the live object, or the object as first seen
Snapshot(view, p) ==
    IF LiveOf(view, p.id) # {}
    THEN CHOOSE o \in LiveOf(view, p.id) : TRUE
    ELSE [id |-> p.id, version |-> StartVersion[p.id], owner |-> p.owner,
          type |-> TypeOf[p.id], balance |-> 100,
          previous_transaction |-> GenesisDigest]

Max(S) == CHOOSE x \in S : \A y \in S : y <= x

RECURSIVE Ascending(_)
Ascending(S) ==
    IF S = {} THEN <<>>
    ELSE LET m == CHOOSE x \in S : \A y \in S : x <= y
         IN  <<m>> \o Ascending(S \ {m})

Reverse(q) == [i \in 1..Len(q) |-> q[Len(q) + 1 - i]]

\* the transaction with this digest that follows the plans (one per object id)
BuildTx(view, plans, descending, digest) ==
    LET planOf(id) == CHOOSE p \in plans : p.id = id
        inIds == Ascending({p.id : p \in {q \in plans : HasInput(q.kind)}})
        outIds == Ascending({p.id : p \in {q \in plans : HasOutput(q.kind)}})
        delIds == Ascending({p.id : p \in {q \in plans : q.kind = "delete"}})
        inputs == [i \in 1..Len(inIds) |-> Snapshot(view, planOf(inIds[i]))]
        lamport == 1 + Max({inputs[i].version : i \in 1..Len(inputs)} \cup {0})
        output(p) ==
            [id |-> p.id, version |-> lamport,
             owner |-> CASE p.kind = "transfer" -> OtherAddress(Snapshot(view, p).owner)
                         [] p.kind = "mutate" -> Snapshot(view, p).owner
                         [] OTHER -> p.owner,
             type |-> TypeOf[p.id], balance |-> p.balance,
             previous_transaction |-> digest]
        outputs == [i \in 1..Len(outIds) |-> output(planOf(outIds[i]))]
        refs(ks) == {<<p.id, lamport>> : p \in {q \in plans : q.kind \in ks /\ q.listed}}
    IN  [digest |-> digest,
         input_objects |-> inputs,
         output_objects |-> IF descending THEN Reverse(outputs) ELSE outputs,
         effects |-> [created |-> refs({"create"}),
                      mutated |-> refs({"mutate", "transfer"}),
                      unwrapped |-> refs({"unwrap"}),
                      deleted |-> [i \in 1..Len(delIds) |-> <<delIds[i], lamport>>]]]

\* what the checkpoint's later transactions see after tx
ViewAfter(view, tx) ==
    LET outIds == {tx.output_objects[i].id : i \in DOMAIN tx.output_objects}
        delIds == {tx.effects.deleted[i][1] : i \in DOMAIN tx.effects.deleted}
    IN  [live |-> {o \in view.live : o.id \notin outIds \cup delIds}
                  \cup {tx.output_objects[i] : i \in DOMAIN tx.output_objects},
         gone |-> view.gone \cup delIds]

\* Transactions on SUI coins 1 and 2 and USDC coin 3, every output in the effects:
\* coin 1 touched in any way, coin 3 touched, coin 1 and another coin touched, in
\* either output order, or no object touched at all (so that a checkpoint always
\* has a next transaction, whatever its earlier ones removed).
RichTxs(view, digest) ==
    LET one(id) == PlansFor(view, id, {"create", "unwrap", "mutate", "transfer", "delete"},
                            Owners, CoinValues, {TRUE})
        first == PlansFor(view, 1, {"create", "transfer", "delete"},
                          {AddressA}, {50}, {TRUE})
        second == PlansFor(view, 2, {"mutate", "transfer", "delete"},
                           {AddressA}, {50}, {TRUE})
                  \cup PlansFor(view, 3, {"transfer"}, {AddressA}, {50}, {TRUE})
    IN  {BuildTx(view, {p}, FALSE, digest) : p \in one(1)}
        \cup {BuildTx(view, {p}, FALSE, digest) :
                p \in PlansFor(view, 3, {"create", "mutate", "delete"},
                               {AddressA}, {50}, {TRUE})}
        \cup {BuildTx(view, {p, q}, d, digest) : p \in first, q \in second, d \in BOOLEAN}
        \cup {BuildTx(view, {}, FALSE, digest)}

\* Transactions on SUI coin 1 alone: its creation by 0xA when the checkpoint has
\* not touched it yet and a transfer when it has, or a mutation whose output is left
\* out of the effects.
LeanTxs(view, digest) ==
    {BuildTx(view, {p}, FALSE, digest) :
        p \in {q \in PlansFor(view, 1, {"create", "mutate", "transfer"},
                              {AddressA} \cup {o.owner : o \in LiveOf(view, 1)},
                              {100}, BOOLEAN) :
                 /\ q.listed = (q.kind # "mutate")
                 /\ q.kind = "transfer" => LiveOf(view, 1) # {}}}

\* Transactions on SUI coins 1 and 2 in which an output may be left out of the
\* effects: coin 1 created, mutated or transferred, or coin 1 created or transferred
\* with coin 2, left out, created or mutated, in either output order.
ErrTxs(view, digest) ==
    {BuildTx(view, {p}, FALSE, digest) :
        p \in PlansFor(view, 1, {"create", "mutate", "transfer"},
                       {AddressA, Shared} \cup {o.owner : o \in LiveOf(view, 1)},
                       {50}, BOOLEAN)}
    \cup {BuildTx(view, {p, q}, d, digest) :
            p \in PlansFor(view, 1, {"create", "transfer"},
                           {AddressA} \cup {o.owner : o \in LiveOf(view, 1)},
                           {50}, {TRUE}),
            q \in PlansFor(view, 2, {"create", "mutate"}, {AddressA}, {50}, {FALSE}),
            d \in BOOLEAN}

\* checkpoint_summary of the k-th call
Summary(k, end_of_epoch) ==
    [epoch |-> 7, sequence_number |-> 40 + k, timestamp_ms |-> 1000 * (40 + k),
     end_of_epoch |-> end_of_epoch]

(***************************************************************************)
(* The handler.                                                            *)
(***************************************************************************)
\* sui_types::SYSTEM_PACKAGE_ADDRESSES, and one package that is not a system package
SYSTEM_PACKAGE_ADDRESSES == {"0x1", "0x2", "0x3"}
Packages == SYSTEM_PACKAGE_ADDRESSES \cup {"0xa"}

NoCheckpoint == [call |-> 0, summary |-> Summary(0, FALSE), ntx |-> 0, next |-> 0,
                 view |-> EmptyView, failed_at |-> 0]
NoTransaction == [digest |-> GenesisDigest, input_objects |-> <<>>,
                  output_objects |-> <<>>, effects |-> EmptyEffects]

\* ObjectID::from_hex_literal: the 32-byte address of a hex literal
from_hex_literal(literal) == <<"ObjectID", literal>>

\* the package_filter argument of OwnershipHandler::new: none, or the package of USDC
PackageFilters == {None, Some("0xa")}

\* OwnershipHandler::new: an empty buffer, an unlocked mutex, the package store
\* opened at store_path, which holds what earlier runs stored, and the package
\* filter parsed from its argument
Init ==
    /\ objects = <<>>
    /\ packageCache \in {{}, Packages}
    /\ package_filter \in {IF f = None THEN None ELSE Some(from_hex_literal(f[1])) :
                              f \in PackageFilters}
    /\ lock = Free
    /\ waiters = <<>>
    /\ pc = [t \in Tasks |-> "idle"]
    /\ cp = [w \in Workers |-> NoCheckpoint]
    /\ returned = [r \in Readers |-> <<>>]
    /\ calls = 0
    /\ reads = 0
    /\ appended = <<>>
    /\ readLog = <<>>
    /\ completed = {}
    /\ contended = [t \in Tasks |-> FALSE]
    /\ last = [call |-> 0, index |-> 0, tx |-> NoTransaction,
               summary |-> Summary(0, FALSE), pushed |-> <<>>, ok |-> TRUE]

\* process_checkpoint is called with a checkpoint of ntx transactions and suspends
\* in self.state.lock().await (line 248)
Call(w, end_of_epoch, ntx) ==
    /\ pc[w] = "idle"
    /\ calls < MaxCheckpoints
    /\ calls' = calls + 1
    /\ cp' = [cp EXCEPT ![w] = [call |-> calls + 1,
                                summary |-> Summary(calls + 1, end_of_epoch),
                                ntx |-> ntx, next |-> 1, view |-> EmptyView,
                                failed_at |-> 0]]
    /\ pc' = [pc EXCEPT ![w] = "waiting"]
    /\ waiters' = Append(waiters, w)
    /\ contended' = [contended EXCEPT ![w] =
                         \E v \in Workers : pc[v] \in {"waiting", "processing"}]
    /\ UNCHANGED <<objects, packageCache, package_filter, lock, returned, reads, appended, readLog, completed, last>>

\* the mutex is granted to the longest-waiting task (tokio's Mutex is FIFO)
Acquire(w) ==
    /\ pc[w] = "waiting"
    /\ lock = Free
    /\ waiters # <<>> /\ Head(waiters) = w
    /\ lock' = w
    /\ waiters' = Tail(waiters)
    /\ pc' = [pc EXCEPT ![w] = "processing"]
    /\ UNCHANGED <<objects, packageCache, package_filter, cp, returned, calls, reads, appended, readLog, completed, contended, last>>

\* mutant: the mutex is locked per transaction, inside the loop
between_transactions_unlocked(w, queue) ==
    [lock |-> Free, waiters |-> Append(queue, w), pc |-> "waiting"]

\* where process_checkpoint stands between two transactions: the guard `state` of
\* line 248 lives across the whole loop, so the task still owns the mutex
between_transactions(w, queue) ==
    [lock |-> w, waiters |-> queue, pc |-> "processing"]

\* mutant: an entry replaces the buffered entries of its object
push_replacing(buffer, entries) ==
    SelectSeq(buffer, LAMBDA e : \A i \in DOMAIN entries :
                                     e.object_id # entries[i].object_id) \o entries

\* state.objects.push(..) for the entries of one transaction, in order (lines 115,
\* 140, 171, 203 and 230)
push(buffer, entries) == buffer \o entries

\* mutant: a failed process_checkpoint leaves the mutex locked
after_failure_keeps_lock(w, queue) ==
    [lock |-> w, waiters |-> queue, pc |-> "failed"]

\* mutant: a failed transaction is skipped and the loop goes on
after_failure_goes_on(w, queue) ==
    [lock |-> w, waiters |-> queue, pc |-> "processing"]

\* where process_checkpoint stands after a transaction failed: the failure leaves
\* the loop and the function (the `?` of line 259, and the unwinding of a panic),
\* which drops the guard
after_failure(w, queue) ==
    [lock |-> Free, waiters |-> queue, pc |-> "failed"]

\* one iteration of the loop of lines 250-260 on transaction tx; after the last
\* transaction process_checkpoint returns Ok(()) and the guard is dropped, and a
\* panic of process_transaction unwinds through the guard, which unlocks too
ProcessTransaction(w, tx) ==
    /\ pc[w] = "processing"
    /\ lock = w
    /\ cp[w].next <= cp[w].ntx
    /\ \E r \in {process_transaction(cp[w].summary.epoch, cp[w].summary.sequence_number,
                                     cp[w].summary.timestamp_ms, tx, tx.effects)},
          go \in {between_transactions(w, waiters)},
          stop \in {after_failure(w, waiters)} :
           /\ objects' = push(objects, r.pushed)
           /\ appended' = appended \o
                  [i \in 1..Len(r.pushed) |->
                      [call |-> cp[w].call, index |-> cp[w].next, entry |-> r.pushed[i]]]
           /\ last' = [call |-> cp[w].call, index |-> cp[w].next, tx |-> tx,
                       summary |-> cp[w].summary, pushed |-> r.pushed, ok |-> r.ok]
           /\ cp' = [cp EXCEPT ![w].next = @ + 1, ![w].view = ViewAfter(@, tx),
                                ![w].failed_at = IF r.ok THEN @ ELSE cp[w].next]
           /\ completed' = IF r.ok /\ cp[w].next = cp[w].ntx
                           THEN completed \cup {cp[w].call} ELSE completed
           /\ IF ~r.ok
              THEN /\ lock' = stop.lock
                   /\ waiters' = stop.waiters
                   /\ pc' = [pc EXCEPT ![w] = stop.pc]
              ELSE IF cp[w].next = cp[w].ntx
              THEN /\ lock' = Free
                   /\ waiters' = waiters
                   /\ pc' = [pc EXCEPT ![w] = "idle"]
              ELSE /\ lock' = go.lock
                   /\ waiters' = go.waiters
                   /\ pc' = [pc EXCEPT ![w] = go.pc]
    /\ UNCHANGED <<packageCache, package_filter, returned, calls, reads, readLog, contended>>

\* the loop of lines 250-260 is not entered, because the checkpoint has no
\* transactions: process_checkpoint returns Ok(()) (line 262) and the guard is dropped
ReturnOk(w) ==
    /\ pc[w] = "processing"
    /\ lock = w
    /\ cp[w].next > cp[w].ntx
    /\ lock' = Free
    /\ pc' = [pc EXCEPT ![w] = "idle"]
    /\ completed' = completed \cup {cp[w].call}
    /\ UNCHANGED <<objects, packageCache, package_filter, waiters, cp, returned, calls, reads, appended, readLog, contended, last>>

\* read() is called and suspends in self.state.lock().await (line 269)
ReadCall(r) ==
    /\ pc[r] = "idle"
    /\ reads < MaxReads
    /\ reads' = reads + 1
    /\ pc' = [pc EXCEPT ![r] = "waiting"]
    /\ waiters' = Append(waiters, r)
    /\ contended' = [contended EXCEPT ![r] = \E v \in Workers : pc[v] = "processing"]
    /\ UNCHANGED <<objects, packageCache, package_filter, lock, cp, returned, calls, appended, readLog, completed, last>>

\* mutant: read() returns the buffer without its oldest entry
cloned_without_oldest(buffer) == IF buffer = <<>> THEN <<>> ELSE Tail(buffer)

\* state.objects.clone() (line 270): a copy of the buffer
cloned(buffer) == buffer

\* mutant: read() forgets state.objects.clear()
cleared_nothing(buffer) == buffer

\* state.objects.clear() (line 271): the buffer afterwards
cleared(buffer) == <<>>

\* read() from the grant of the mutex to its return (lines 269-273)
Read(r) ==
    /\ pc[r] = "waiting"
    /\ lock = Free
    /\ waiters # <<>> /\ Head(waiters) = r
    /\ waiters' = Tail(waiters)
    /\ returned' = [returned EXCEPT ![r] = cloned(objects)]
    /\ objects' = cleared(objects)
    /\ readLog' = Append(readLog, [before |-> objects, ret |-> cloned(objects),
                                   after |-> cleared(objects), at |-> Len(appended),
                                   waited |-> contended[r]])
    /\ pc' = [pc EXCEPT ![r] = "idle"]
    /\ UNCHANGED <<packageCache, package_filter, lock, cp, calls, reads, appended, completed, contended, last>>

\* Concurrent workers and a reader.
Next ==
    \/ \E w \in Workers, ntx \in 0..MaxTransactions : Call(w, FALSE, ntx)
    \/ \E w \in Workers : Acquire(w)
    \/ \E w \in Workers :
           /\ pc[w] = "processing"
           /\ \E tx \in LeanTxs(cp[w].view, Digest(cp[w].call, cp[w].next)) :
                  ProcessTransaction(w, tx)
    \/ \E w \in Workers : ReturnOk(w)
    \/ \E r \in Readers : ReadCall(r)
    \/ \E r \in Readers : Read(r)

\* OwnershipHandler::new over an empty package store.
InitEmptyStore == Init /\ packageCache = {}

\* OwnershipHandler::new without a package filter.
InitNoFilter == Init /\ package_filter = None

\* OwnershipHandler::new over an empty package store and without a package filter.
InitPlain == InitEmptyStore /\ InitNoFilter

Spec == InitPlain /\ [][Next]_vars

\* the steps the runtime takes: it grants the free mutex to the longest-waiting
\* task and runs the task that owns it (the calls themselves are the callers' doing)
Run ==
    \/ \E w \in Workers : Acquire(w)
    \/ \E w \in Workers :
           /\ pc[w] = "processing"
           /\ \E tx \in LeanTxs(cp[w].view, Digest(cp[w].call, cp[w].next)) :
                  ProcessTransaction(w, tx)
    \/ \E w \in Workers : ReturnOk(w)
    \/ \E r \in Readers : Read(r)

\* The same, with a fair mutex and a fair scheduler: a task that can take the mutex
\* takes it, and a task that runs goes on running.  At most one task can take a
\* step of Run at a time, so fairness of Run is fairness to every task.
Fairness == WF_vars(Run)

SpecFair == InitPlain /\ [][Next]_vars /\ Fairness

\* One worker that processes one checkpoint, and a reader that calls read() while
\* no checkpoint is being processed.
NextTx ==
    \/ \E end_of_epoch \in BOOLEAN, ntx \in 0..MaxTransactions :
           calls = 0 /\ Call("w1", end_of_epoch, ntx)
    \/ Acquire("w1")
    \/ /\ pc["w1"] = "processing"
       /\ \E tx \in RichTxs(cp["w1"].view, Digest(cp["w1"].call, cp["w1"].next)) :
              ProcessTransaction("w1", tx)
    \/ ReturnOk("w1")
    \/ \E r \in Readers : pc["w1"] # "processing" /\ ReadCall(r)
    \/ \E r \in Readers : Read(r)

SpecTx == InitNoFilter /\ [][NextTx]_vars

\* One worker that processes one checkpoint whose transactions may leave an output
\* object out of their effects, and a reader.
NextErr ==
    \/ \E ntx \in 0..MaxTransactions : calls = 0 /\ Call("w1", FALSE, ntx)
    \/ Acquire("w1")
    \/ /\ pc["w1"] = "processing"
       /\ \E tx \in ErrTxs(cp["w1"].view, Digest(cp["w1"].call, cp["w1"].next)) :
              ProcessTransaction("w1", tx)
    \/ ReturnOk("w1")
    \/ \E r \in Readers : pc["w1"] # "processing" /\ ReadCall(r)
    \/ \E r \in Readers : Read(r)

SpecErr == InitPlain /\ [][NextErr]_vars

\* The same worker and reader, on a handler constructed with or without a package
\* filter.
SpecFilter == InitEmptyStore /\ [][NextTx]_vars

(***************************************************************************)
(* The claims.  The entries a transaction is expected to push are stated   *)
(* from the transaction itself: its input objects, output objects and      *)
(* effects.                                                                *)
(***************************************************************************)
TrackedType == "0x2::coin::Coin<0x2::sui::SUI>"

\* the inverse of ObjectIdHex
IdOf(e) == CHOOSE id \in ObjectIDs : ObjectIdHex[id] = e.object_id

Range(q) == {q[i] : i \in DOMAIN q}

\* the tracked input objects of tx with this id: the before-snapshot, if any
SnapshotsOf(tx, id) == {o \in Range(tx.input_objects) : o.id = id /\ o.type = TrackedType}
HasSnapshot(tx, id) == SnapshotsOf(tx, id) # {}
SnapshotOf(tx, id) == CHOOSE o \in SnapshotsOf(tx, id) : TRUE

TrackedOutputs(tx) == {o \in Range(tx.output_objects) : o.type = TrackedType}

\* the tracked output objects of tx whose owner address changed
OwnerChanged(tx) ==
    {o \in TrackedOutputs(tx) :
        /\ HasSnapshot(tx, o.id)
        /\ get_owner_address(SnapshotOf(tx, o.id)) # get_owner_address(o)}

\* the positions of q that hold an entry of this object
PositionsOf(q, id) == {i \in DOMAIN q : q[i].object_id = ObjectIdHex[id]}
\* the positions of q that hold an entry with one of these statuses
PositionsWith(q, statuses) == {i \in DOMAIN q : q[i].object_status \in statuses}

PreviousAllNull(e) ==
    /\ e.previous_owner = None
    /\ e.previous_version = None
    /\ e.previous_checkpoint = None
    /\ e.previous_coin_type = None
    /\ e.previous_type = None

PreviousAllSet(e) ==
    /\ e.previous_owner # None
    /\ e.previous_version # None
    /\ e.previous_checkpoint # None
    /\ e.previous_coin_type # None
    /\ e.previous_type # None

\* C1: every tracked output object whose before-snapshot has another owner address
\* gets exactly two entries, a "Transfer Out" entry of the old owner with balance 0
\* directly followed by a "Transfer In" entry of the new owner with the object's
\* current balance; the transfer entries of a transaction number twice its
\* owner-changed objects.
C1_TransferPair ==
    last.call # 0 =>
        /\ \A o \in OwnerChanged(last.tx) :
              \E i \in DOMAIN last.pushed :
                 /\ PositionsOf(last.pushed, o.id) = {i, i + 1}
                 /\ last.pushed[i].object_status = "Transfer Out"
                 /\ last.pushed[i].owner_address = get_owner_address(SnapshotOf(last.tx, o.id))
                 /\ last.pushed[i].coin_balance = 0
                 /\ last.pushed[i + 1].object_status = "Transfer In"
                 /\ last.pushed[i + 1].owner_address = get_owner_address(o)
                 /\ last.pushed[i + 1].coin_balance = o.balance
        /\ Cardinality(PositionsWith(last.pushed, {"Transfer Out", "Transfer In"}))
              = 2 * Cardinality(OwnerChanged(last.tx))

\* a transaction that changed the owner of two objects pushed four transfer entries
C1_Witness ==
    /\ last.call # 0
    /\ Cardinality(OwnerChanged(last.tx)) = 2
    /\ Cardinality(PositionsWith(last.pushed, {"Transfer Out", "Transfer In"})) = 4

\* C2: every "Transfer Out" entry in the buffer or returned by read() has balance 0
\* and no null previous_* field, and the previous_* fields of a pushed "Transfer Out"
\* entry are those of the before-snapshot of its object.
C2_TransferOut ==
    /\ \A e \in Range(objects) \cup UNION {Range(returned[r]) : r \in Readers} :
          e.object_status = "Transfer Out" => e.coin_balance = 0 /\ PreviousAllSet(e)
    /\ \A i \in PositionsWith(last.pushed, {"Transfer Out"}) :
          LET e == last.pushed[i]
              id == IdOf(e)
          IN  /\ HasSnapshot(last.tx, id)
              /\ e.coin_balance = 0
              /\ e.previous_owner = get_owner_address(SnapshotOf(last.tx, id))
              /\ e.previous_version = Some(SnapshotOf(last.tx, id).version)
              /\ e.previous_checkpoint = Some(last.summary.sequence_number)
              /\ e.previous_coin_type = Some(SUI)
              /\ e.previous_type = Some(SnapshotOf(last.tx, id).owner.kind)

\* read() returned a "Transfer Out" entry of an object whose current balance is not 0
C2_Witness ==
    /\ \E r \in Readers : \E e \in Range(returned[r]) : e.object_status = "Transfer Out"
    /\ \E o \in OwnerChanged(last.tx) : o.balance # 0

\* C3: every tracked output object without a before-snapshot gets exactly
\* one entry, whose status is "Created" and whose previous_* fields are null.
C3_AlwaysCreated ==
    last.call # 0 =>
        \A o \in TrackedOutputs(last.tx) :
            ~HasSnapshot(last.tx, o.id) =>
                \E i \in DOMAIN last.pushed :
                   /\ PositionsOf(last.pushed, o.id) = {i}
                   /\ last.pushed[i].object_status = "Created"
                   /\ PreviousAllNull(last.pushed[i])

\* C4: every deleted object reference of the effects whose object has a
\* before-snapshot gets exactly one "Deleted" entry: balance 0, the version of the
\* deletion reference, owner, owner type and coin type of the before-snapshot, the
\* digest of the transaction itself, and null previous_* fields.
C4_Deleted ==
    last.call # 0 =>
        \A ref \in Range(last.tx.effects.deleted) :
            HasSnapshot(last.tx, ref[1]) =>
                \E i \in DOMAIN last.pushed :
                   LET e == last.pushed[i]
                       snapshot == SnapshotOf(last.tx, ref[1])
                   IN  /\ PositionsOf(last.pushed, ref[1])
                             \cap PositionsWith(last.pushed, {"DELETED"}) = {i}
                       /\ e.coin_balance = 0
                       /\ e.version = ref[2]
                       /\ e.owner_type = Some(snapshot.owner.kind)
                       /\ e.owner_address = get_owner_address(snapshot)
                       /\ e.coin_type = Some(SUI)
                       /\ e.previous_transaction = base58_encode(last.tx.digest)
                       /\ e.previous_transaction # base58_encode(snapshot.previous_transaction)
                       /\ PreviousAllNull(e)

\* a coin with a before-snapshot was deleted at a version above the snapshot's
C4_Witness ==
    /\ last.call # 0
    /\ \E ref \in Range(last.tx.effects.deleted) :
          /\ HasSnapshot(last.tx, ref[1])
          /\ SnapshotOf(last.tx, ref[1]).version < ref[2]
          /\ \E i \in PositionsOf(last.pushed, ref[1]) :
                last.pushed[i].object_status = "DELETED"

\* the entries pushed between two positions of the history
Pushed(from, to) == [i \in 1..(to - from) |-> appended[from + i].entry]
\* the position of the history at which the read before read i was served
ReadFrom(i) == IF i = 1 THEN 0 ELSE readLog[i - 1].at

\* C5: read() returns the whole buffer and leaves it empty, so that of two read()
\* calls with no process_checkpoint step between them the second returns nothing.
C5_DrainAndClear ==
    /\ \A i \in DOMAIN readLog :
          /\ readLog[i].ret = readLog[i].before
          /\ readLog[i].after = <<>>
          /\ readLog[i].ret = Pushed(ReadFrom(i), readLog[i].at)
    /\ \A i \in DOMAIN readLog :
          (i > 1 /\ readLog[i].at = readLog[i - 1].at) => readLog[i].ret = <<>>
    /\ (readLog # <<>> /\ readLog[Len(readLog)].at = Len(appended)) => objects = <<>>

\* two read() calls in a row: the first returned entries, the second nothing
C5_Witness ==
    \E i \in DOMAIN readLog :
        /\ i > 1
        /\ readLog[i].at = readLog[i - 1].at
        /\ readLog[i - 1].ret # <<>>
        /\ readLog[i].ret = <<>>

\* C6, as claimed: when process_checkpoint returns from a checkpoint whose summary
\* has the end-of-epoch flag, no system package is left in the package cache.
C6_EvictsAtEpochEnd ==
    [][\A w \in Workers :
          (pc[w] = "processing" /\ pc'[w] = "idle" /\ cp[w].summary.end_of_epoch)
              => packageCache' \cap SYSTEM_PACKAGE_ADDRESSES = {}]_vars

\* the entries of call k among those of the history between two positions
CountOf(k, from, to) == Cardinality({i \in (from + 1)..to : appended[i].call = k})

\* C7: a worker that is processing owns the mutex, and a read() returns none or all
\* of the entries of a checkpoint whose process_checkpoint returned Ok(()).
C7_NoPartialDrain ==
    /\ \A w \in Workers : pc[w] = "processing" => lock = w
    /\ \A i \in DOMAIN readLog : \A k \in completed :
          CountOf(k, ReadFrom(i), readLog[i].at) \in {0, CountOf(k, 0, Len(appended))}

\* a read() that was called while a checkpoint of two transactions was being
\* processed returned the entries of both transactions
C7_Witness ==
    \E i \in DOMAIN readLog : \E k \in completed :
        /\ readLog[i].waited
        /\ \E a, b \in (ReadFrom(i) + 1)..readLog[i].at :
              /\ appended[a].call = k /\ appended[a].index = 1
              /\ appended[b].call = k /\ appended[b].index = 2

\* C8: in the order of pushing, the entries of a checkpoint are one block, the
\* blocks are in the order in which process_checkpoint was called, the entries of a
\* block are in transaction order, and a "Transfer Out" entry is directly followed by
\* its "Transfer In" entry; the buffer holds the latest entries in that order.
C8_BlockOrder ==
    /\ \A i, j \in DOMAIN appended :
          i < j => \/ appended[i].call < appended[j].call
                   \/ /\ appended[i].call = appended[j].call
                      /\ appended[i].index <= appended[j].index
    /\ \A i \in DOMAIN appended :
          appended[i].entry.object_status = "Transfer Out" =>
              /\ i + 1 \in DOMAIN appended
              /\ appended[i + 1].entry.object_status = "Transfer In"
              /\ appended[i + 1].call = appended[i].call
              /\ appended[i + 1].index = appended[i].index
    /\ Len(objects) <= Len(appended)
    /\ objects = Pushed(Len(appended) - Len(objects), Len(appended))

\* two checkpoints that were pending at the same time both pushed entries
C8_Witness ==
    /\ \E i, j \in DOMAIN appended : appended[i].call = 1 /\ appended[j].call = 2
    /\ \E w \in Workers : cp[w].call = 2 /\ contended[w]

\* C9: the previous_* fields of a "Transfer In" or "Created" entry are all null
\* exactly when its object has no before-snapshot among the tracked inputs.
C9_PreviousIffSnapshot ==
    \A i \in PositionsWith(last.pushed, {"Transfer In", "Created"}) :
        /\ PreviousAllNull(last.pushed[i]) <=> ~HasSnapshot(last.tx, IdOf(last.pushed[i]))
        /\ PreviousAllNull(last.pushed[i]) \/ PreviousAllSet(last.pushed[i])

\* one transaction pushed a "Created" entry without and a "Transfer In" entry with
\* previous_* fields
C9_Witness ==
    /\ \E i \in PositionsWith(last.pushed, {"Created"}) : PreviousAllNull(last.pushed[i])
    /\ \E i \in PositionsWith(last.pushed, {"Transfer In"}) : PreviousAllSet(last.pushed[i])

\* C10: of two entries pushed for one object while one checkpoint is processed, the
\* later has the greater or the same version.
C10_VersionMonotone ==
    \A i, j \in DOMAIN appended :
        (/\ i < j
         /\ appended[i].call = appended[j].call
         /\ appended[i].entry.object_id = appended[j].entry.object_id) =>
            appended[i].entry.version <= appended[j].entry.version

\* a checkpoint pushed entries of one object at two versions, and two at one version
C10_Witness ==
    /\ \E i, j \in DOMAIN appended :
          /\ i < j
          /\ appended[i].call = appended[j].call
          /\ appended[i].entry.object_id = appended[j].entry.object_id
          /\ appended[i].entry.version < appended[j].entry.version
    /\ \E i, j \in DOMAIN appended :
          /\ i < j
          /\ appended[i].call = appended[j].call
          /\ appended[i].entry.object_id = appended[j].entry.object_id
          /\ appended[i].entry.version = appended[j].entry.version

\* the package that defines the coin type of an object
PackageOfCoin(o) == IF o.type = TrackedType THEN "0x2" ELSE "0xa"

\* whether the configured filter lets an object through: no filter lets every
\* object through, a filter the objects of its package
PassesFilter(o) ==
    package_filter = None \/ package_filter = Some(from_hex_literal(PackageOfCoin(o)))

\* C11, as claimed: an output object of a transaction processed to its end gets
\* entries exactly when the configured package filter lets it through; without a
\* filter every output object gets entries.
C11_FilterDecides ==
    (last.call # 0 /\ last.ok) =>
        \A o \in Range(last.tx.output_objects) :
            PositionsOf(last.pushed, o.id) # {} <=> PassesFilter(o)

\* the position of the history at which the latest read() was served
LastReadAt == IF readLog = <<>> THEN 0 ELSE readLog[Len(readLog)].at

\* C12: when transaction k of a checkpoint failed, process_checkpoint has ended
\* without Ok(()) and without the mutex, no transaction after k was processed, and
\* the entries pushed for transactions 1..k-1 were not rolled back: those not yet
\* returned by a read() are still in the buffer.
C12_FailureKeepsEntries ==
    \A w \in Workers :
        cp[w].failed_at # 0 =>
            /\ pc[w] = "failed"
            /\ lock # w
            /\ cp[w].call \notin completed
            /\ cp[w].next = cp[w].failed_at + 1
            /\ \A i \in DOMAIN appended :
                  appended[i].call = cp[w].call =>
                      /\ appended[i].index < cp[w].failed_at
                      /\ i > LastReadAt =>
                            /\ i - LastReadAt \in DOMAIN objects
                            /\ objects[i - LastReadAt] = appended[i].entry

\* the second of two transactions failed and the entries of the first are in the
\* buffer
C12_Witness ==
    \E w \in Workers :
        /\ cp[w].failed_at = 2
        /\ cp[w].ntx = 2
        /\ pc[w] = "failed"
        /\ \E i \in DOMAIN appended :
              /\ appended[i].call = cp[w].call
              /\ appended[i].index = 1
              /\ i > LastReadAt
              /\ appended[i].entry \in Range(objects)

IsPrefix(p, q) == Len(p) <= Len(q) /\ SubSeq(q, 1, Len(p)) = p

\* C13: while process_checkpoint owns the mutex every step leaves the buffered
\* entries where they are, unchanged, and only adds entries behind them; entries of
\* the same object id included.
C13_OnlyAppends ==
    [][(\E w \in Workers : lock = w) => IsPrefix(objects, objects')]_vars

\* the buffer holds an entry of an object from the first transaction of a checkpoint
\* and, behind it, an entry of the same object from the second
C13_Witness ==
    /\ Len(objects) = Len(appended)
    /\ \E i, j \in DOMAIN objects :
          /\ i < j
          /\ objects[i].object_id = objects[j].object_id
          /\ appended[i].index = 1
          /\ appended[j].index = 2
          /\ objects[i] = appended[i].entry

\* C14: among the entries one transaction pushed, every "Deleted" entry is behind
\* every entry made from an output object, and among the entries of one checkpoint
\* those of an earlier transaction are before those of a later one.
C14_DeletedLastAndTxOrder ==
    /\ \A i, j \in DOMAIN last.pushed :
          (/\ last.pushed[i].object_status = "DELETED"
           /\ last.pushed[j].object_status # "DELETED") => j < i
    /\ \A i, j \in DOMAIN appended :
          (/\ appended[i].call = appended[j].call
           /\ appended[i].index < appended[j].index) => i < j

\* the second transaction of a checkpoint, after a first one that pushed entries,
\* pushed entries of an output object and then a "Deleted" entry
C14_Witness ==
    /\ last.index = 2
    /\ \E i \in DOMAIN appended : appended[i].call = last.call /\ appended[i].index = 1
    /\ Len(last.pushed) >= 2
    /\ last.pushed[Len(last.pushed)].object_status = "DELETED"
    /\ last.pushed[1].object_status # "DELETED"
    /\ Len(last.tx.output_objects) >= 1

\* the tracked output objects of tx whose before-snapshot has the same owner address
OwnerKept(tx) ==
    {o \in TrackedOutputs(tx) :
        /\ HasSnapshot(tx, o.id)
        /\ get_owner_address(SnapshotOf(tx, o.id)) = get_owner_address(o)}

\* C15: every tracked output object whose before-snapshot has the same owner address
\* gets, in a transaction processed to its end, exactly one entry: its status is the
\* verdict of the Status Classifier, which is "Mutated", it has the object's current
\* owner, version and balance, and its previous_* fields are null.
C15_SameOwnerEntry ==
    (last.call # 0 /\ last.ok) =>
        \A o \in OwnerKept(last.tx) :
            \E i \in DOMAIN last.pushed :
               LET e == last.pushed[i]
               IN  /\ PositionsOf(last.pushed, o.id) = {i}
                   /\ Some(e.object_status)
                         = get_object_status(ObjectStatusTracker(last.tx.effects), o.id)
                   /\ e.object_status = "Mutated"
                   /\ e.owner_address = get_owner_address(o)
                   /\ e.owner_type = Some(o.owner.kind)
                   /\ e.version = o.version
                   /\ e.coin_balance = o.balance
                   /\ PreviousAllNull(e)

\* a coin kept its owner and changed its balance, and its one entry has the new
\* balance
C15_Witness ==
    /\ last.call # 0 /\ last.ok
    /\ \E o \in OwnerKept(last.tx) :
          /\ SnapshotOf(last.tx, o.id).balance # o.balance
          /\ \E i \in DOMAIN last.pushed :
                /\ PositionsOf(last.pushed, o.id) = {i}
                /\ last.pushed[i].coin_balance = o.balance
                /\ last.pushed[i].object_status = "Mutated"

\* the tracked output objects of tx that need a status from the Status Classifier
\* and are in none of the effect sets
Unclassified(tx) ==
    {o \in TrackedOutputs(tx) :
        /\ ~HasSnapshot(tx, o.id) \/ o \in OwnerKept(tx)
        /\ get_object_status(ObjectStatusTracker(tx.effects), o.id) = None}

\* C16: a transaction with a tracked output object that needs a status and is in
\* none of the effect sets does not return Ok(()): it pushed no entry for that
\* object and no "Deleted" entry, every entry it pushed has a status the code or the
\* classifier names, and process_checkpoint ended in failure.
C16_FailsLoudly ==
    (last.call # 0 /\ Unclassified(last.tx) # {}) =>
        /\ ~last.ok
        /\ \A o \in Unclassified(last.tx) : PositionsOf(last.pushed, o.id) = {}
        /\ \A i \in DOMAIN last.pushed :
              last.pushed[i].object_status
                  \in {"Transfer Out", "Transfer In", "Created", "Mutated", "Unwrapped"}
        /\ \E w \in Workers : cp[w].call = last.call /\ pc[w] = "failed"

\* a transaction failed on a created coin that its effects do not list, after it
\* pushed the entry of another coin
C16_Witness ==
    /\ last.call # 0 /\ ~last.ok
    /\ \E o \in Unclassified(last.tx) : ~HasSnapshot(last.tx, o.id)
    /\ last.pushed # <<>>

\* a transaction failed on a coin that kept its owner and that its effects do not
\* list
C16_WitnessSameOwner ==
    /\ last.call # 0 /\ ~last.ok
    /\ \E o \in Unclassified(last.tx) : o \in OwnerKept(last.tx)

\* the objects of tx, input or output, that are not of the tracked type
Untracked(tx) ==
    {o \in Range(tx.input_objects) \cup Range(tx.output_objects) : o.type # TrackedType}

\* C17: a transaction pushes no entry for an object that is not of the tracked
\* type, be it an output object, an input object whose owner changed or an input
\* object that was removed; every buffered entry is of a SUI coin.
C17_OnlyTrackedType ==
    /\ \A o \in Untracked(last.tx) : PositionsOf(last.pushed, o.id) = {}
    /\ \A ref \in Range(last.tx.effects.deleted) :
          TypeOf[ref[1]] # TrackedType => PositionsOf(last.pushed, ref[1]) = {}
    /\ \A i \in DOMAIN objects : objects[i].coin_type = Some(SUI)

\* a transaction changed the owner of a USDC coin and of a SUI coin, and pushed
\* entries of the SUI coin only
C17_Witness ==
    /\ last.call # 0
    /\ last.pushed # <<>>
    /\ \E o \in Range(last.tx.output_objects) : \E b \in Range(last.tx.input_objects) :
          /\ o.type # TrackedType
          /\ b.id = o.id
          /\ get_owner_address(b) # get_owner_address(o)
          /\ PositionsOf(last.pushed, o.id) = {}

\* a transaction removed a USDC coin it had as input and pushed nothing
C17_WitnessRemoved ==
    /\ last.call # 0
    /\ last.pushed = <<>>
    /\ \E ref \in Range(last.tx.effects.deleted) : \E b \in Range(last.tx.input_objects) :
          b.id = ref[1] /\ b.type # TrackedType

\* the results of the first n read() calls, one after the other
RECURSIVE Delivered(_)
Delivered(n) == IF n = 0 THEN <<>> ELSE Delivered(n - 1) \o readLog[n].ret

\* C18: the results of all read() calls, in the order in which they got the mutex,
\* followed by the buffer, are the entries ever pushed, in the order of pushing.
C18_NoLossNoDuplicate ==
    Delivered(Len(readLog)) \o objects = [i \in 1..Len(appended) |-> appended[i].entry]

\* two read() calls returned entries, the first one those of one checkpoint and the
\* second one, called while a worker was processing, those of another
C18_Witness ==
    /\ Len(readLog) = 2
    /\ readLog[1].ret # <<>>
    /\ readLog[2].ret # <<>>
    /\ readLog[2].waited
    /\ \E i, j \in DOMAIN appended : appended[i].call = 1 /\ appended[j].call = 2

\* C19: every task that waits for the mutex gets it and ends its call, in Ok(()) or
\* in failure, and when a call has ended the task does not own the mutex.
C19_LockReleasedAndProgress ==
    \A t \in Tasks :
        (pc[t] = "waiting") ~> (pc[t] \in {"idle", "failed"} /\ lock # t)

\* a process_checkpoint call that was made while another one was pending returned
\* Ok(()) after the other one had failed
C19_Witness ==
    \E v, w \in Workers :
        /\ pc[v] = "failed"
        /\ cp[w].call > cp[v].call
        /\ contended[w]
        /\ cp[w].call \in completed

\* C20: every "Transfer Out" and "Transfer In" entry, pushed, buffered or returned,
\* has its own checkpoint as previous_checkpoint, and a pushed one has the version of
\* the input object of its transaction as previous_version.
C20_PreviousCheckpointIsOwn ==
    /\ \A e \in Range(last.pushed) \cup Range(objects)
                 \cup UNION {Range(returned[r]) : r \in Readers} :
          e.object_status \in {"Transfer Out", "Transfer In"} =>
              /\ e.previous_checkpoint = Some(e.checkpoint)
              /\ e.checkpoint = last.summary.sequence_number
    /\ \A i \in PositionsWith(last.pushed, {"Transfer Out", "Transfer In"}) :
          /\ HasSnapshot(last.tx, IdOf(last.pushed[i]))
          /\ last.pushed[i].previous_version
                = Some(SnapshotOf(last.tx, IdOf(last.pushed[i])).version)

\* a coin last written before this checkpoint changed its owner: both entries have
\* this checkpoint as previous_checkpoint and the older version as previous_version
C20_Witness ==
    /\ last.call # 0
    /\ \E o \in OwnerChanged(last.tx) :
          /\ SnapshotOf(last.tx, o.id).previous_transaction = GenesisDigest
          /\ \E i \in PositionsOf(last.pushed, o.id) :
                /\ PositionsOf(last.pushed, o.id) = {i, i + 1}
                /\ last.pushed[i].previous_checkpoint = Some(last.summary.sequence_number)
                /\ last.pushed[i + 1].previous_checkpoint = Some(last.summary.sequence_number)
                /\ last.pushed[i].previous_version = Some(StartVersion[o.id])
                /\ last.pushed[i + 1].previous_version = Some(StartVersion[o.id])
                /\ last.pushed[i + 1].version > StartVersion[o.id]
====
